---- MODULE Spec2Model ----
(***************************************************************************)
(* Secure Command Executor (src/index.js): the command Registry file, the  *)
(* date-partitioned audit log, the confirmation gate of the execute tool,  *)
(* the spawned processes, and the four tools execute, queryCommands,       *)
(* manageCommand and queryLogs.                                            *)
(*                                                                         *)
(* JavaScript runs one handler at a time: a handler is interrupted only at *)
(* an await.  The only await of the tools is execute's await of the        *)
(* spawned process, so execute is two actions (Execute up to the spawn,    *)
(* ProcessExit from the exit of the process) and every other handler is    *)
(* one action.                                                             *)
(***************************************************************************)
EXTENDS Integers, Sequences, FiniteSets, TLC

\* ------------------------------------------------------------------ bounds
\* Requests the model accepts (the length of the request history).
MaxReq == 2
\* Calendar days the model runs through (one log partition per day).
MaxDay == 2

\* ------------------------------------------------------- optional values
\* A parameter zod leaves undefined is None; a supplied value v is Some(v).
None == <<>>
Some(v) == <<v>>
IsSome(o) == o # <<>>
Val(o) == o[1]

\* JavaScript truthiness of an optional string: undefined and "" are falsy.
Truthy(o) == IsSome(o) /\ Val(o) # ""
\* JavaScript truthiness of an optional boolean.
TruthyBool(o) == IsSome(o) /\ Val(o)
\* a || b on an optional string a and a string b.
OrElse(o, d) == IF Truthy(o) THEN Val(o) ELSE d

\* --------------------------------------------------------------- constants
\* The fixed confirmation phrase of the execute tool.
Phrase == "I understand the risks and confirm execution"
DefaultPrompt == "Confirm execution of this dangerous operation?"
DefaultConsequences == "May cause system damage or data loss"
NoDescription == "No description"
NoExample == "No example"

\* The Registry ensureCommandsFile writes when the file is absent.
DefaultCommands ==
  << [name |-> "dir", description |-> "List directory contents",
      example |-> "dir /w", dangerous |-> FALSE, enabled |-> TRUE,
      confirmationPrompt |-> "", consequences |-> ""],
     [name |-> "ping", description |-> "Test network connection",
      example |-> "ping example.com", dangerous |-> FALSE, enabled |-> TRUE,
      confirmationPrompt |-> "", consequences |-> ""],
     [name |-> "format", description |-> "Format disk drive",
      example |-> "format C:", dangerous |-> TRUE, enabled |-> FALSE,
      confirmationPrompt |-> "This will PERMANENTLY erase all data. Confirm?",
      consequences |-> "Permanent data loss"] >>

\* ------------------------------------------------------------- input sets
\* Command names a request may carry ("x" is in no bootstrap Registry).
ReqNames == {"dir", "format", "x"}
\* The execute requests: every name with every token, and with arguments.
ExecInputs ==
  {<<c, None, t>> : c \in ReqNames,
                    t \in {None, Some(""), Some("wrong"), Some(Phrase)}}
  \cup {<<"format", Some("C:"), t>> : t \in {None, Some("wrong"), Some(Phrase)}}
  \cup {<<"dir", Some("/w"), None>>}
Filters == {"all", "enabled", "disabled", "dangerous"}
Actions == {"add", "update", "remove", "enable", "disable", "list"}

NoFields ==
  [description |-> None, example |-> None, dangerous |-> None,
   confirmationPrompt |-> None, consequences |-> None, enabled |-> None]

\* The field combinations an add or update request is drawn from: every
\* field is supplied in some and left undefined in others.
FieldSets ==
  { NoFields,
    [NoFields EXCEPT !.description = Some("d"), !.example = Some("e")],
    [NoFields EXCEPT !.dangerous = Some(TRUE)],
    [NoFields EXCEPT !.dangerous = Some(TRUE), !.confirmationPrompt = Some("p"),
                     !.consequences = Some("c"), !.enabled = Some(TRUE)],
    [NoFields EXCEPT !.dangerous = Some(FALSE), !.confirmationPrompt = Some("p"),
                     !.consequences = Some("c")],
    [NoFields EXCEPT !.confirmationPrompt = Some("p"), !.consequences = Some("c")],
    [NoFields EXCEPT !.enabled = Some(FALSE)] }

\* ------------------------------------------------------------------- state
VARIABLES
  phase,       \* "init" before the module body ran, "running", "stopped"
  production,  \* NODE_ENV === 'production' (no fs.watch on the Registry)
  regFile,     \* the Registry file: [st: "ok" | "absent" | "corrupt", cmds]
  logs,        \* logs[d]: the events of the partition of day d, in order
  today,       \* the local date
  badParts,    \* the days whose partition file cannot be read or written
  saveBroken,  \* writing or renaming the temporary Registry file fails
  watchPending,\* an fs.watch notification waits for its callback
  reqs,        \* the requests in order of arrival, with each one's response
  procs        \* the spawned processes, in order of spawning

vars == <<phase, production, regFile, logs, today, badParts, saveBroken,
          watchPending, reqs, procs>>

Days == 1..MaxDay

\* -------------------------------------------------------------- audit log
Event(action, req, command, name) ==
  [action |-> action, req |-> req, command |-> command, name |-> name]

\* The command line without its arguments.
FullCommandNoArgs(command, args) == <<command>>

\* `${command} ${args}` when args is truthy, else command: the words of the line.
FullCommand(command, args) ==
  IF Truthy(args) THEN <<command, Val(args)>> ELSE <<command>>

NoCommand == <<>>

\* logAction that writes the event alone over the partition.
LogActionTruncating(lg, day, bad, ev) ==
  IF day \in bad THEN lg ELSE [lg EXCEPT ![day] = <<ev>>]

\* logAction: read the partition of today, push the event, write it back;
\* a failure of the read or the write is caught and only reported on stderr.
LogAction(lg, day, bad, ev) ==
  IF day \in bad THEN lg ELSE [lg EXCEPT ![day] = Append(@, ev)]

RECURSIVE LogAll(_, _, _, _)
\* Consecutive logAction calls of one handler.
LogAll(lg, day, bad, evs) ==
  IF evs = <<>> THEN lg
  ELSE LogAll(LogAction(lg, day, bad, Head(evs)), day, bad, Tail(evs))

\* ---------------------------------------------------------------- Registry
RegOk(cmds) == [st |-> "ok", cmds |-> cmds]
RegAbsent == [st |-> "absent", cmds |-> <<>>]
RegCorrupt == [st |-> "corrupt", cmds |-> <<>>]

\* loadCommands succeeds: the file exists and parses to an array.
LoadOk(rf) == rf.st = "ok"

\* loadCommands that hands out the bootstrap defaults, not the file.
LoadCommandsBootstrap(rf) == DefaultCommands

\* What loadCommands returns: the array parsed from the file as it is now.
LoadCommands(rf) == rf.cmds

\* What loadCommands logs before it rethrows (it passes no requestId).
LoadFailedEvent == Event("config_load_failed", 0, NoCommand, "")

\* commands.findIndex(c => c.name === name): 0 when there is none.
FindIndex(cmds, name) ==
  IF \E i \in 1..Len(cmds) : cmds[i].name = name
  THEN CHOOSE i \in 1..Len(cmds) :
         /\ cmds[i].name = name
         /\ \A j \in 1..(i - 1) : cmds[j].name # name
  ELSE 0

\* A splice at the wrong index: the first entry goes.
RemoveFirst(cmds, i) == Tail(cmds)

\* commands.splice(i, 1)
RemoveAt(cmds, i) ==
  [j \in 1..(Len(cmds) - 1) |-> IF j < i THEN cmds[j] ELSE cmds[j + 1]]

\* saveCommands that writes the Registry file in place: a failed write
\* leaves it cut short.
SaveCommandsInPlace(rf, cmds, broken) ==
  IF broken
  THEN [ok |-> FALSE, file |-> RegCorrupt, event |-> "config_save_failed"]
  ELSE [ok |-> TRUE, file |-> RegOk(cmds), event |-> "config_saved"]

\* saveCommands: write the temporary file, rename it over the Registry file;
\* on a failure of either the Registry file keeps its content.
SaveCommands(rf, cmds, broken) ==
  IF broken
  THEN [ok |-> FALSE, file |-> rf, event |-> "config_save_failed"]
  ELSE [ok |-> TRUE, file |-> RegOk(cmds), event |-> "config_saved"]

\* The Registry of an earlier session that enabled format.
FormatEnabled == [DefaultCommands EXCEPT ![3].enabled = TRUE]

\* How the service is started: NODE_ENV and the Registry file it finds.
InitConfigs ==
  {<<TRUE, RegAbsent>>, <<FALSE, RegAbsent>>, <<FALSE, RegOk(FormatEnabled)>>}

Init ==
  /\ phase = "init"
  /\ \E c \in InitConfigs : production = c[1] /\ regFile = c[2]
  /\ logs = [d \in Days |-> <<>>]
  /\ today = 1
  /\ badParts = {}
  /\ saveBroken = FALSE
  /\ watchPending = FALSE
  /\ reqs = <<>>
  /\ procs = <<>>

ServiceEvent(action) == Event(action, 0, NoCommand, "")

\* initLogSystem: a partition file that does not exist yet starts with
\* service_started; an existing one is left alone.
InitLogSystem(lg, day) ==
  IF lg[day] = <<>> THEN [lg EXCEPT ![day] = <<ServiceEvent("service_started")>>]
  ELSE lg

\* ensureCommandsFile: the default Registry when the file does not exist.
EnsureCommandsFile(rf) == IF rf.st = "absent" THEN RegOk(DefaultCommands) ELSE rf

\* The module body: setupProcessHandlers, ensureCommandsFile, initLogSystem,
\* verifyFileAccess, service_initialized, service_started, connect.
\* fs.watch throws on a file that does not exist; the uncaughtException
\* handler logs and exits, and the exit handler logs service_stopped.
Start ==
  /\ phase = "init"
  /\ IF ~production /\ regFile.st = "absent"
     THEN /\ phase' = "stopped"
          /\ logs' = LogAll(logs, today, badParts,
                            <<ServiceEvent("uncaught_exception"),
                              ServiceEvent("service_stopped")>>)
          /\ UNCHANGED regFile
     ELSE /\ phase' = "running"
          /\ regFile' = EnsureCommandsFile(regFile)
          /\ logs' = LogAll(
               InitLogSystem(
                 IF regFile.st = "absent"
                 THEN LogAction(logs, today, badParts,
                                ServiceEvent("config_file_created"))
                 ELSE logs, today),
               today, badParts,
               <<ServiceEvent("service_initialized"),
                 ServiceEvent("service_started")>>)
  /\ UNCHANGED <<production, today, badParts, saveBroken, watchPending, reqs, procs>>

\* SIGTERM: service_terminated, then process.exit(0) and the exit handler.
Terminate ==
  /\ phase = "running"
  /\ phase' = "stopped"
  /\ logs' = LogAll(logs, today, badParts,
                    <<ServiceEvent("service_terminated"),
                      ServiceEvent("service_stopped")>>)
  /\ UNCHANGED <<production, regFile, today, badParts, saveBroken, watchPending,
                 reqs, procs>>

\* The local date moves on to the next day.
AdvanceDay ==
  /\ phase = "running"
  /\ today < MaxDay
  /\ today' = today + 1
  /\ UNCHANGED <<phase, production, regFile, logs, badParts, saveBroken,
                 watchPending, reqs, procs>>

\* The Registry file is deleted or overwritten with text that is no JSON
\* array, from outside the service.
RegistryLost ==
  /\ phase = "running"
  /\ regFile.st = "ok"
  /\ \E rf \in {RegAbsent, RegCorrupt} : regFile' = rf
  /\ watchPending' = (watchPending \/ ~production)
  /\ UNCHANGED <<phase, production, logs, today, badParts, saveBroken, reqs, procs>>

\* The fs.watch callback of setupProcessHandlers (development mode only).
WatchCallback ==
  /\ phase = "running"
  /\ watchPending
  /\ watchPending' = FALSE
  /\ logs' = LogAction(logs, today, badParts, ServiceEvent("config_file_changed"))
  /\ UNCHANGED <<phase, production, regFile, today, badParts, saveBroken, reqs, procs>>

\* ---------------------------------------------------------------- requests
\* A request as it arrived, with what its handler has answered so far.
\* gate: the branch execute took; resp: the text returned ("awaiting" while
\* the handler awaits the process); cfg: the entry the handler found.
BlankReq ==
  [op |-> "", name |-> None, args |-> None, token |-> None, action |-> "",
   fields |-> NoFields, filter |-> None, limit |-> 0,
   gate |-> "", resp |-> "", requiresConfirmation |-> FALSE,
   cfg |-> None, list |-> <<>>]

Accepting == phase = "running" /\ Len(reqs) < MaxReq

\* ----------------------------------------------------------------- execute
\* The gate of execute that lets any supplied token pass.
EvaluateAnyToken(cmds, command, token) ==
  LET i == FindIndex(cmds, command) IN
  IF i = 0 THEN "not_found"
  ELSE IF ~cmds[i].enabled THEN "disabled"
  ELSE IF ~cmds[i].dangerous THEN "allowed"
  ELSE IF ~Truthy(token) THEN "pending"
  ELSE "confirmed"

\* The gate of execute that never checks enabled.
EvaluateIgnoringEnabled(cmds, command, token) ==
  LET i == FindIndex(cmds, command) IN
  IF i = 0 THEN "not_found"
  ELSE IF ~cmds[i].dangerous THEN "allowed"
  ELSE IF ~Truthy(token) THEN "pending"
  ELSE IF Val(token) # Phrase THEN "invalid_token"
  ELSE "confirmed"

\* The gate of execute that treats a missing token as confirmation.
EvaluateNoTokenConfirms(cmds, command, token) ==
  LET i == FindIndex(cmds, command) IN
  IF i = 0 THEN "not_found"
  ELSE IF ~cmds[i].enabled THEN "disabled"
  ELSE IF ~cmds[i].dangerous THEN "allowed"
  ELSE IF ~Truthy(token) THEN "confirmed"
  ELSE IF Val(token) # Phrase THEN "invalid_token"
  ELSE "confirmed"

\* The gate of execute that remembers a confirmation: once a request was
\* confirmed, a dangerous entry needs no token.
EvaluateRemembering(cmds, command, token) ==
  LET i == FindIndex(cmds, command) IN
  IF i = 0 THEN "not_found"
  ELSE IF ~cmds[i].enabled THEN "disabled"
  ELSE IF ~cmds[i].dangerous THEN "allowed"
  ELSE IF \E k \in 1..Len(reqs) : reqs[k].gate = "confirmed" THEN "confirmed"
  ELSE IF ~Truthy(token) THEN "pending"
  ELSE IF Val(token) # Phrase THEN "invalid_token"
  ELSE "confirmed"

\* The branch execute takes on the loaded commands: the entry is looked up,
\* then enabled, then dangerous and the token are tested, in this order.
Evaluate(cmds, command, token) ==
  LET i == FindIndex(cmds, command) IN
  IF i = 0 THEN "not_found"
  ELSE IF ~cmds[i].enabled THEN "disabled"
  ELSE IF ~cmds[i].dangerous THEN "allowed"
  ELSE IF ~Truthy(token) THEN "pending"
  ELSE IF Val(token) # Phrase THEN "invalid_token"
  ELSE "confirmed"

\* The gate's events without the one of the confirmed branch.
GateEventsSilentConfirm(gate, rid, command, line) ==
  IF gate = "not_found" THEN <<Event("command_not_found", rid, <<command>>, "")>>
  ELSE IF gate = "disabled" THEN <<Event("command_disabled", rid, <<command>>, "")>>
  ELSE IF gate = "pending" THEN <<Event("dangerous_command_attempt", rid, line, "")>>
  ELSE IF gate = "invalid_token"
       THEN <<Event("dangerous_command_rejected", rid, line, "")>>
  ELSE IF gate = "load_failed"
       THEN <<LoadFailedEvent, Event("command_failed", rid, line, "")>>
  ELSE <<>>

\* What execute logs up to its return or its spawn, per branch.
GateEvents(gate, rid, command, line) ==
  IF gate = "not_found" THEN <<Event("command_not_found", rid, <<command>>, "")>>
  ELSE IF gate = "disabled" THEN <<Event("command_disabled", rid, <<command>>, "")>>
  ELSE IF gate = "pending" THEN <<Event("dangerous_command_attempt", rid, line, "")>>
  ELSE IF gate = "invalid_token"
       THEN <<Event("dangerous_command_rejected", rid, line, "")>>
  ELSE IF gate = "confirmed"
       THEN <<Event("dangerous_command_confirmed", rid, line, "")>>
  ELSE IF gate = "load_failed"
       THEN <<LoadFailedEvent, Event("command_failed", rid, line, "")>>
  ELSE <<>>

\* The text execute returns per branch; "awaiting" stands for no answer yet.
GateResponse(gate) ==
  IF gate = "not_found" THEN "unknown_command"
  ELSE IF gate = "disabled" THEN "command_disabled"
  ELSE IF gate = "pending" THEN "warning"
  ELSE IF gate = "invalid_token" THEN "invalid_token"
  ELSE IF gate = "load_failed" THEN "error"
  ELSE "awaiting"

\* The spawn that waits for the confirmation to be in the log.
SpawnsWhenLogged(gate) ==
  gate = "allowed" \/ (gate = "confirmed" /\ today \notin badParts)

\* The branches that go on to execAsync.
Spawns(gate) == gate \in {"allowed", "confirmed"}

\* execute, from the request to its return or to the await of the process.
Execute(command, args, token) ==
  /\ Accepting
  /\ LET rid == Len(reqs) + 1
         line == FullCommand(command, args)
         gate == IF LoadOk(regFile) THEN Evaluate(LoadCommands(regFile), command, token)
                 ELSE "load_failed"
         i == IF LoadOk(regFile) THEN FindIndex(LoadCommands(regFile), command) ELSE 0
     IN /\ logs' = LogAll(logs, today, badParts, GateEvents(gate, rid, command, line))
        /\ procs' = IF Spawns(gate)
                    THEN Append(procs, [req |-> rid, line |-> line, status |-> "running"])
                    ELSE procs
        /\ reqs' = Append(reqs,
             [BlankReq EXCEPT !.op = "execute", !.name = Some(command),
                !.args = args, !.token = token, !.gate = gate,
                !.resp = GateResponse(gate),
                !.requiresConfirmation = (gate = "pending"),
                !.cfg = IF i = 0 THEN None ELSE Some(LoadCommands(regFile)[i])])
  /\ UNCHANGED <<phase, production, regFile, today, badParts, saveBroken, watchPending>>

\* The event of the end of the process, with both outcomes logged as success.
ExitEventAlwaysExecuted(rid, line, status) ==
  Event("command_executed", rid, line, "")

\* The end of the process that looks the entry up again and reports the
\* command as disabled when it is no longer enabled in the Registry file.
ExitEventRechecking(rid, line, status) ==
  IF \E k \in 1..Len(regFile.cmds) :
       regFile.cmds[k].name = line[1] /\ regFile.cmds[k].enabled
  THEN (IF status = "ok" THEN Event("command_executed", rid, line, "")
        ELSE Event("command_failed", rid, line, ""))
  ELSE Event("command_disabled", rid, <<line[1]>>, "")

\* command_executed after the await returned, command_failed from the catch.
ExitEvent(rid, line, status) ==
  IF status = "ok" THEN Event("command_executed", rid, line, "")
  ELSE Event("command_failed", rid, line, "")

\* execute, from the end of the process (exit 0, or a non-zero exit or a
\* failed spawn, which reject the awaited promise) to its return.
ProcessExit(i, status) ==
  /\ phase = "running"
  /\ i \in 1..Len(procs)
  /\ procs[i].status = "running"
  /\ procs' = [procs EXCEPT ![i].status = status]
  /\ logs' = LogAction(logs, today, badParts,
                       ExitEvent(procs[i].req, procs[i].line, status))
  /\ reqs' = [reqs EXCEPT ![procs[i].req].resp =
                IF status = "ok" THEN "output" ELSE "error"]
  /\ UNCHANGED <<phase, production, regFile, today, badParts, saveBroken, watchPending>>

\* ----------------------------------------------------------- queryCommands
\* filteredCommands of queryCommands.
FilterCommands(cmds, filter) ==
  IF filter = "enabled" THEN SelectSeq(cmds, LAMBDA c : c.enabled)
  ELSE IF filter = "disabled" THEN SelectSeq(cmds, LAMBDA c : ~c.enabled)
  ELSE IF filter = "dangerous" THEN SelectSeq(cmds, LAMBDA c : c.dangerous)
  ELSE cmds

\* One line of the list: the name, the danger mark, the (disabled) mark.
CommandInfo(c) == [name |-> c.name, warn |-> c.dangerous, disabled |-> ~c.enabled]

CommandList(cmds) == [i \in 1..Len(cmds) |-> CommandInfo(cmds[i])]

\* queryCommands that runs ensureCommandsFile before it loads.
QueryCommandsEnsuring(filter) ==
  /\ Accepting
  /\ LET rid == Len(reqs) + 1
         rf == EnsureCommandsFile(regFile)
         found == FilterCommands(rf.cmds, filter)
     IN /\ regFile' = rf
        /\ logs' = LogAll(logs, today, badParts,
                     IF LoadOk(rf) THEN <<Event("commands_queried", rid, NoCommand, "")>>
                     ELSE <<LoadFailedEvent, Event("query_failed", rid, NoCommand, "")>>)
        /\ reqs' = Append(reqs,
             [BlankReq EXCEPT !.op = "queryCommands", !.filter = Some(filter),
                !.resp = IF LoadOk(rf) THEN "commands" ELSE "query_failed",
                !.list = IF LoadOk(rf) THEN CommandList(found) ELSE <<>>])
  /\ UNCHANGED <<phase, production, today, badParts, saveBroken,
                 watchPending, procs>>

\* queryCommands: load, filter, format the list, log commands_queried; a
\* failed load is logged by loadCommands and answered from the catch.
QueryCommands(filter) ==
  /\ Accepting
  /\ LET rid == Len(reqs) + 1
         ok == LoadOk(regFile)
         found == FilterCommands(LoadCommands(regFile), filter)
     IN /\ logs' = LogAll(logs, today, badParts,
                     IF ok THEN <<Event("commands_queried", rid, NoCommand, "")>>
                     ELSE <<LoadFailedEvent, Event("query_failed", rid, NoCommand, "")>>)
        /\ reqs' = Append(reqs,
             [BlankReq EXCEPT !.op = "queryCommands", !.filter = Some(filter),
                !.resp = IF ok THEN "commands" ELSE "query_failed",
                !.list = IF ok THEN CommandList(found) ELSE <<>>])
  /\ UNCHANGED <<phase, production, regFile, today, badParts, saveBroken,
                 watchPending, procs>>

\* ----------------------------------------------------------- manageCommand
\* newCmd of add that stores an entry enabled unless the request says not.
NewCmdEnabled(name, f) ==
  [name |-> name,
   description |-> OrElse(f.description, NoDescription),
   example |-> OrElse(f.example, NoExample),
   dangerous |-> TruthyBool(f.dangerous),
   enabled |-> IF IsSome(f.enabled) THEN Val(f.enabled) ELSE TRUE,
   confirmationPrompt |->
     IF TruthyBool(f.dangerous) THEN OrElse(f.confirmationPrompt, DefaultPrompt) ELSE "",
   consequences |->
     IF TruthyBool(f.dangerous) THEN OrElse(f.consequences, DefaultConsequences) ELSE ""]

\* newCmd of add.
NewCmd(name, f) ==
  [name |-> name,
   description |-> OrElse(f.description, NoDescription),
   example |-> OrElse(f.example, NoExample),
   dangerous |-> TruthyBool(f.dangerous),
   enabled |-> IF IsSome(f.enabled) THEN Val(f.enabled) ELSE ~TruthyBool(f.dangerous),
   confirmationPrompt |->
     IF TruthyBool(f.dangerous) THEN OrElse(f.confirmationPrompt, DefaultPrompt) ELSE "",
   consequences |->
     IF TruthyBool(f.dangerous) THEN OrElse(f.consequences, DefaultConsequences) ELSE ""]

\* The patch of update without the clearing of a non-dangerous entry.
UpdateCmdNotClearing(cmd, f) ==
  LET c1 == IF IsSome(f.description)
            THEN [cmd EXCEPT !.description = Val(f.description)] ELSE cmd
      c2 == IF IsSome(f.example) THEN [c1 EXCEPT !.example = Val(f.example)] ELSE c1
      c3 == IF IsSome(f.enabled) THEN [c2 EXCEPT !.enabled = Val(f.enabled)] ELSE c2
  IN IF IsSome(f.dangerous)
     THEN [c3 EXCEPT !.dangerous = Val(f.dangerous),
                     !.confirmationPrompt = OrElse(f.confirmationPrompt, @),
                     !.consequences = OrElse(f.consequences, @)]
     ELSE c3

\* The patch update applies to the entry: description, example and enabled
\* when supplied; prompt and consequences only together with dangerous.
UpdateCmd(cmd, f) ==
  LET c1 == IF IsSome(f.description)
            THEN [cmd EXCEPT !.description = Val(f.description)] ELSE cmd
      c2 == IF IsSome(f.example) THEN [c1 EXCEPT !.example = Val(f.example)] ELSE c1
      c3 == IF IsSome(f.enabled) THEN [c2 EXCEPT !.enabled = Val(f.enabled)] ELSE c2
  IN IF IsSome(f.dangerous)
     THEN IF Val(f.dangerous)
          THEN [c3 EXCEPT !.dangerous = TRUE,
                          !.confirmationPrompt = OrElse(f.confirmationPrompt, @),
                          !.consequences = OrElse(f.consequences, @)]
          ELSE [c3 EXCEPT !.dangerous = FALSE,
                          !.confirmationPrompt = "", !.consequences = ""]
     ELSE c3

Rejected(cmds, message) ==
  [cmds |-> cmds, updated |-> FALSE, message |-> message, event |-> ""]

Applied(cmds, message, event) ==
  [cmds |-> cmds, updated |-> TRUE, message |-> message, event |-> event]

\* The duplicate test of add that looks at the first entry only.
NameTakenFirstOnly(cmds, name) == cmds # <<>> /\ cmds[1].name = name

\* The duplicate test of add that never finds the name.
NameTakenNever(cmds, name) == FALSE

\* commands.some(c => c.name === params.name)
NameTaken(cmds, name) == \E i \in 1..Len(cmds) : cmds[i].name = name

\* The enable or disable that flips the flag of the entry.
SetEnabledToggling(cmds, i, b) == [cmds EXCEPT ![i].enabled = ~@]

\* enableCmd.enabled = true / disableCmd.enabled = false on the entry found.
SetEnabled(cmds, i, b) == [cmds EXCEPT ![i].enabled = b]

\* The switch of manageCommand on the loaded commands: the commands after
\* the action, whether they are to be saved, the message, the event logged.
ManageApply(cmds, action, name, f) ==
  LET i == IF IsSome(name) THEN FindIndex(cmds, Val(name)) ELSE 0 IN
  IF action = "list"
  THEN [cmds |-> cmds, updated |-> FALSE, message |-> "listed",
        event |-> "command_listed"]
  ELSE IF ~IsSome(name) THEN Rejected(cmds, "name_required")
  ELSE IF action = "add"
  THEN IF NameTaken(cmds, Val(name)) THEN Rejected(cmds, "already_exists")
       ELSE Applied(Append(cmds, NewCmd(Val(name), f)), "added", "command_added")
  ELSE IF i = 0 THEN Rejected(cmds, "not_found")
  ELSE IF action = "update"
  THEN Applied([cmds EXCEPT ![i] = UpdateCmd(@, f)], "updated", "command_updated")
  ELSE IF action = "remove"
  THEN Applied(RemoveAt(cmds, i), "removed", "command_removed")
  ELSE IF action = "enable"
  THEN Applied(SetEnabled(cmds, i, TRUE), "enabled", "command_enabled")
  ELSE Applied(SetEnabled(cmds, i, FALSE), "disabled", "command_disabled")

\* The requests manageCommand is given.  Only add of a new name and update
\* of an existing one read the fields: they are drawn from FieldSets there.
ManageInputs ==
  {<<"add", Some("x"), f>> : f \in FieldSets}
  \cup {<<"update", Some(n), f>> : n \in {"dir", "format"}, f \in FieldSets}
  \cup {<<"add", Some("dir"), NoFields>>, <<"update", Some("x"), NoFields>>,
        <<"remove", None, NoFields>>, <<"remove", Some("x"), NoFields>>,
        <<"remove", Some("dir"), NoFields>>, <<"enable", Some("format"), NoFields>>,
        <<"disable", Some("dir"), NoFields>>, <<"list", None, NoFields>>}

ManageCommand(action, name, f) ==
  /\ Accepting
  /\ LET rid == Len(reqs) + 1
         ok == LoadOk(regFile)
         r == ManageApply(LoadCommands(regFile), action, name, f)
         sv == SaveCommands(regFile, r.cmds, saveBroken)
         saved == ok /\ r.updated
         nm == IF IsSome(name) THEN Val(name) ELSE ""
     IN /\ logs' = LogAll(logs, today, badParts,
                     IF ~ok
                     THEN <<LoadFailedEvent,
                            Event("management_failed", rid, NoCommand, "")>>
                     ELSE (IF r.event = "" THEN <<>>
                           ELSE <<Event(r.event, rid, NoCommand,
                                        IF action = "list" THEN "" ELSE nm)>>)
                          \o (IF saved THEN <<ServiceEvent(sv.event)>> ELSE <<>>))
        /\ regFile' = IF saved THEN sv.file ELSE regFile
        /\ watchPending' = (watchPending \/ (saved /\ sv.ok /\ ~production))
        /\ reqs' = Append(reqs,
             [BlankReq EXCEPT !.op = "manageCommand", !.action = action,
                !.name = name, !.fields = f,
                !.resp = IF ~ok THEN "management_failed"
                         ELSE IF saved /\ ~sv.ok THEN "save_failed"
                         ELSE r.message])
  /\ UNCHANGED <<phase, production, today, badParts, saveBroken, procs>>

\* --------------------------------------------------------------- queryLogs
\* The queryLogs requests: a limit with a filter.
LogInputs == {<<1, None>>, <<3, Some("failed")>>, <<3, Some("dir")>>}

\* The action tags that contain the word as a substring.
ActionIncludes(action, word) ==
  \/ action = word
  \/ /\ word = "failed"
     /\ action \in {"command_failed", "config_load_failed", "config_save_failed",
                    "query_failed", "management_failed", "log_query_failed"}

\* String.includes on a command line, for a word without a blank: the
\* words of the lines here ("dir", "format", "x", "C:", "/w") contain no other.
LineIncludes(line, word) == \E k \in 1..Len(line) : line[k] = word

\* The filter predicate of queryLogs on one entry.
EntryMatches(e, word) ==
  \/ ActionIncludes(e.action, word)
  \/ (e.command # NoCommand /\ LineIncludes(e.command, word))
  \/ (e.name # "" /\ e.name = word)

FilterLogs(part, filter) ==
  IF Truthy(filter) THEN SelectSeq(part, LAMBDA e : EntryMatches(e, Val(filter)))
  ELSE part

RECURSIVE CollectLogsAborting(_, _, _, _, _, _)
\* The loop of queryLogs that gives up at the first unreadable partition.
CollectLogsAborting(lg, bad, d, acc, limit, filter) ==
  IF d = 0 THEN acc
  ELSE IF lg[d] = <<>> THEN CollectLogsAborting(lg, bad, d - 1, acc, limit, filter)
  ELSE IF d \in bad THEN acc
  ELSE LET all == acc \o FilterLogs(lg[d], filter) IN
       IF Len(all) >= limit THEN SubSeq(all, 1, limit)
       ELSE CollectLogsAborting(lg, bad, d - 1, all, limit, filter)

RECURSIVE CollectLogs(_, _, _, _, _, _)
\* The loop of queryLogs over the partition files, newest name first, from
\* day d down: an unreadable file is skipped, the loop ends at the limit.
CollectLogs(lg, bad, d, acc, limit, filter) ==
  IF d = 0 THEN acc
  ELSE IF lg[d] = <<>> \/ d \in bad
  THEN CollectLogs(lg, bad, d - 1, acc, limit, filter)
  ELSE LET all == acc \o FilterLogs(lg[d], filter) IN
       IF Len(all) >= limit THEN SubSeq(all, 1, limit)
       ELSE CollectLogs(lg, bad, d - 1, all, limit, filter)

\* queryLogs without the logAction at its end.
QueryLogsSilent(limit, filter) ==
  /\ Accepting
  /\ LET found == CollectLogs(logs, badParts, MaxDay, <<>>, limit, filter)
     IN reqs' = Append(reqs,
             [BlankReq EXCEPT !.op = "queryLogs", !.filter = filter,
                !.limit = limit, !.resp = "logs", !.list = found])
  /\ UNCHANGED <<phase, production, regFile, logs, today, badParts, saveBroken,
                 watchPending, procs>>

\* queryLogs: collect from the partitions, log logs_queried, answer.
QueryLogs(limit, filter) ==
  /\ Accepting
  /\ LET rid == Len(reqs) + 1
         found == CollectLogs(logs, badParts, MaxDay, <<>>, limit, filter)
     IN /\ logs' = LogAction(logs, today, badParts,
                             Event("logs_queried", rid, NoCommand, ""))
        /\ reqs' = Append(reqs,
             [BlankReq EXCEPT !.op = "queryLogs", !.filter = filter,
                !.limit = limit, !.resp = "logs", !.list = found])
  /\ UNCHANGED <<phase, production, regFile, today, badParts, saveBroken,
                 watchPending, procs>>

\* --------------------------------------------------------------- resources
\* The resources a client reads: cmd://commands (no name) and
\* cmd://command/{name}.
ResourceInputs == {None, Some("dir"), Some("x")}

\* The two resource handlers: loadCommands, then the whole array, the entry
\* of the name, or a text that there is none or that the load failed (the
\* failed load is logged by loadCommands; the handlers log nothing).
ReadResource(name) ==
  /\ Accepting
  /\ LET ok == LoadOk(regFile)
         i == IF ok /\ IsSome(name) THEN FindIndex(LoadCommands(regFile), Val(name)) ELSE 0
     IN /\ logs' = LogAll(logs, today, badParts,
                          IF ok THEN <<>> ELSE <<LoadFailedEvent>>)
        /\ reqs' = Append(reqs,
             [BlankReq EXCEPT !.op = "resource", !.name = name,
                !.resp = IF ~ok THEN "error_loading"
                         ELSE IF ~IsSome(name) THEN "commands_json"
                         ELSE IF i = 0 THEN "command_not_found"
                         ELSE "command_json",
                !.cfg = IF i = 0 THEN None ELSE Some(LoadCommands(regFile)[i]),
                !.list = IF ok /\ ~IsSome(name) THEN LoadCommands(regFile) ELSE <<>>])
  /\ UNCHANGED <<phase, production, regFile, today, badParts, saveBroken,
                 watchPending, procs>>

\* ------------------------------------------------------------------ faults
\* The partition file of today becomes unreadable and unwritable, or usable
\* again.
PartitionFault ==
  /\ phase = "running"
  /\ badParts' = IF today \in badParts THEN badParts \ {today}
                  ELSE badParts \cup {today}
  /\ UNCHANGED <<phase, production, regFile, logs, today, saveBroken,
                 watchPending, reqs, procs>>

\* Writing the temporary Registry file starts or stops failing.
SaveFault ==
  /\ phase = "running"
  /\ saveBroken' = ~saveBroken
  /\ UNCHANGED <<phase, production, regFile, logs, today, badParts,
                 watchPending, reqs, procs>>

\* ---------------------------------------------------------- specifications
\* The manageCommand requests that change what the gate of execute finds.
GateManageInputs ==
  {<<"enable", Some("format"), NoFields>>, <<"disable", Some("dir"), NoFields>>,
   <<"add", Some("x"), [NoFields EXCEPT !.dangerous = Some(TRUE),
                                        !.enabled = Some(TRUE)]>>}

\* execute on every input, the spawned processes and the loss of the
\* Registry file, with the Registry changed by manageCommand in between.
NextExecute ==
  \/ Start
  \/ RegistryLost
  \/ \E in \in ExecInputs : Execute(in[1], in[2], in[3])
  \/ \E i \in 1..MaxReq, st \in {"ok", "failed"} : ProcessExit(i, st)
  \/ \E in \in GateManageInputs : ManageCommand(in[1], in[2], in[3])

SpecExecute == Init /\ [][NextExecute]_vars

\* manageCommand on every input, with queryCommands and queryLogs reading
\* what it wrote, and the loss of the Registry file.
NextManage ==
  \/ Start
  \/ RegistryLost
  \/ \E in \in ManageInputs : ManageCommand(in[1], in[2], in[3])
  \/ \E f \in Filters : QueryCommands(f)
  \/ \E in \in LogInputs : QueryLogs(in[1], in[2])

SpecManage == Init /\ [][NextManage]_vars

\* The manageCommand requests between the reading requests: list, and two
\* that change the Registry the readers find.
QueryManageInputs ==
  {<<"list", None, NoFields>>, <<"list", Some("dir"), NoFields>>,
   <<"add", Some("x"), NoFields>>, <<"remove", Some("dir"), NoFields>>}

\* The reading requests (queryCommands, queryLogs, manageCommand list, the
\* two resources) on every input, over a Registry that is there, changed,
\* deleted or corrupted.
NextQuery ==
  \/ Start
  \/ RegistryLost
  \/ \E f \in Filters : QueryCommands(f)
  \/ \E in \in LogInputs : QueryLogs(in[1], in[2])
  \/ \E n \in ResourceInputs : ReadResource(n)
  \/ \E in \in QueryManageInputs : ManageCommand(in[1], in[2], in[3])

SpecQuery == Init /\ [][NextQuery]_vars

\* The two queries on every input and what they do to the log: over the
\* days, with a Registry that is deleted or corrupted and a partition of the
\* log that fails and stays so.
NextQueryLog ==
  \/ Start
  \/ AdvanceDay
  \/ RegistryLost
  \/ (today \notin badParts /\ PartitionFault)
  \/ \E f \in Filters : QueryCommands(f)
  \/ \E in \in LogInputs : QueryLogs(in[1], in[2])

SpecQueryLog == Init /\ [][NextQueryLog]_vars

\* The execute requests that put a process in flight.
InFlightExecInputs ==
  {<<"dir", None, None>>, <<"format", Some("C:"), Some(Phrase)>>}

\* Requests that overlap: manageCommand on every input, one after another
\* and while the processes of execute requests run.
NextOverlap ==
  \/ Start
  \/ \E in \in InFlightExecInputs : Execute(in[1], in[2], in[3])
  \/ \E i \in 1..MaxReq, st \in {"ok", "failed"} : ProcessExit(i, st)
  \/ \E in \in ManageInputs : ManageCommand(in[1], in[2], in[3])

SpecOverlap == Init /\ [][NextOverlap]_vars

\* manageCommand on every input while the write or the rename of the
\* temporary Registry file fails or works, with queryCommands reading the
\* file that is left.
NextSave ==
  \/ Start
  \/ SaveFault
  \/ \E in \in ManageInputs : ManageCommand(in[1], in[2], in[3])
  \/ QueryCommands("all")

SpecSave == Init /\ [][NextSave]_vars

\* execute on every input and manageCommand while the partition of today
\* can or cannot be read and written.
NextAuditFault ==
  \/ Start
  \/ PartitionFault
  \/ \E in \in ExecInputs : Execute(in[1], in[2], in[3])
  \/ \E i \in 1..MaxReq, st \in {"ok", "failed"} : ProcessExit(i, st)
  \/ \E in \in GateManageInputs : ManageCommand(in[1], in[2], in[3])

SpecAuditFault == Init /\ [][NextAuditFault]_vars

\* The queryLogs requests over a log of several days: LogInputs and an
\* empty filter string.
LogQueryInputs == LogInputs \cup {<<2, Some("")>>}

\* queryLogs over the days: requests that log lines, names and failures, the
\* change of day, and a partition that becomes unreadable and stays so.
NextLogs ==
  \/ Start
  \/ AdvanceDay
  \/ (today \notin badParts /\ PartitionFault)
  \/ Execute("dir", Some("/w"), None)
  \/ \E i \in 1..MaxReq, st \in {"ok", "failed"} : ProcessExit(i, st)
  \/ ManageCommand("disable", Some("dir"), NoFields)
  \/ \E in \in LogQueryInputs : QueryLogs(in[1], in[2])

SpecLogs == Init /\ [][NextLogs]_vars

\* The enable and disable requests: on an entry that is enabled, on one
\* that is disabled, on a name added before and on a name that is not there,
\* with the add that makes "x" an entry.
ToggleInputs ==
  {<<a, Some(n), NoFields>> : a \in {"enable", "disable"}, n \in ReqNames}
  \cup {<<"enable", None, NoFields>>,
        <<"add", Some("x"), [NoFields EXCEPT !.dangerous = Some(TRUE)]>>}

\* enable and disable, once and again, on every kind of entry.
NextToggle ==
  \/ Start
  \/ \E in \in ToggleInputs : ManageCommand(in[1], in[2], in[3])

SpecToggle == Init /\ [][NextToggle]_vars

\* The requests about a name that is added: the add with every field
\* combination, what may enable the entry afterwards, and its removal.
AddedManageInputs ==
  {<<"add", Some("x"), f>> : f \in FieldSets}
  \cup {<<"enable", Some("x"), NoFields>>, <<"remove", Some("x"), NoFields>>,
        <<"update", Some("x"), [NoFields EXCEPT !.enabled = Some(TRUE)]>>,
        <<"update", Some("x"), [NoFields EXCEPT !.description = Some("d"),
                                                !.example = Some("e")]>>}

\* The execute requests of the added name: no token, a wrong one, the phrase.
AddedExecInputs ==
  {<<"x", None, t>> : t \in {None, Some("wrong"), Some(Phrase)}}

\* A command is added and then executed, enabled, updated or removed.
NextAdded ==
  \/ Start
  \/ \E in \in AddedManageInputs : ManageCommand(in[1], in[2], in[3])
  \/ \E in \in AddedExecInputs : Execute(in[1], in[2], in[3])
  \/ \E i \in 1..MaxReq, st \in {"ok", "failed"} : ProcessExit(i, st)

SpecAdded == Init /\ [][NextAdded]_vars

\* The whole service: the handlers on a few inputs, with SIGTERM, the change
\* of day, the fs.watch callback, a failing log partition and failing
\* Registry saves.
ServiceExecInputs ==
  {<<"dir", None, None>>, <<"format", Some("C:"), Some(Phrase)>>}

ServiceManageInputs == {<<"add", Some("x"), NoFields>>}

NextService ==
  \/ Start
  \/ Terminate
  \/ AdvanceDay
  \/ RegistryLost
  \/ WatchCallback
  \/ PartitionFault
  \/ SaveFault
  \/ \E in \in ServiceExecInputs : Execute(in[1], in[2], in[3])
  \/ \E i \in 1..MaxReq, st \in {"ok", "failed"} : ProcessExit(i, st)
  \/ QueryCommands("all")
  \/ \E in \in ServiceManageInputs : ManageCommand(in[1], in[2], in[3])
  \/ QueryLogs(1, Some("failed"))

SpecService == Init /\ [][NextService]_vars

\* ================================================================== claims
RECURSIVE Flatten(_, _)
\* The events of the partitions of days 1..d, oldest first.
Flatten(lg, d) == IF d = 0 THEN <<>> ELSE Flatten(lg, d - 1) \o lg[d]

AllEvents == Flatten(logs, MaxDay)

IsPrefix(s, t) == Len(s) <= Len(t) /\ SubSeq(t, 1, Len(s)) = s

\* The events a step appended to the partition of today.
NewEvents == SubSeq(logs'[today], Len(logs[today]) + 1, Len(logs'[today]))

Rids == 1..Len(reqs)
Spawned(rid) == \E i \in 1..Len(procs) : procs[i].req = rid
HasEvent(rid, action) ==
  \E k \in 1..Len(AllEvents) : AllEvents[k].req = rid /\ AllEvents[k].action = action

\* The step is the arrival of a request of tool op; r is the request with
\* its answer.
Arrives(op) ==
  /\ Len(reqs') = Len(reqs) + 1
  /\ reqs'[Len(reqs')].op = op
Arrived == reqs'[Len(reqs')]

\* The entry of the Registry file with this name, if it has one.
Entries(name) ==
  {regFile.cmds[i] : i \in {j \in 1..Len(regFile.cmds) : regFile.cmds[j].name = name}}

\* C1: an execute request without a token for an entry that is dangerous and
\* enabled is answered with the warning that carries the confirmation phrase
\* and requiresConfirmation = true; no process is spawned for it and no
\* command_executed event is logged for it.
C1_PendingWithoutToken ==
  \A rid \in Rids :
    LET r == reqs[rid] IN
    (/\ r.op = "execute"
     /\ IsSome(r.cfg) /\ Val(r.cfg).dangerous /\ Val(r.cfg).enabled
     /\ r.token = None)
    => /\ r.resp = "warning"
       /\ r.requiresConfirmation
       /\ ~Spawned(rid)
       /\ ~HasEvent(rid, "command_executed")
       /\ HasEvent(rid, "dangerous_command_attempt")

C1_Witness ==
  \E rid \in Rids :
    /\ reqs[rid].op = "execute" /\ reqs[rid].name = Some("format")
    /\ reqs[rid].args = Some("C:") /\ reqs[rid].token = None
    /\ IsSome(reqs[rid].cfg) /\ Val(reqs[rid].cfg).dangerous
    /\ Val(reqs[rid].cfg).enabled
    /\ reqs[rid].requiresConfirmation

WrongToken(r) == IsSome(r.token) /\ Val(r.token) # Phrase

\* C2 as stated: every execute request with a token other than the phrase,
\* whatever the name and the Registry, is answered "Invalid confirmation
\* token", logs dangerous_command_rejected and spawns nothing.
C2_WrongTokenAlwaysInvalid ==
  \A rid \in Rids :
    LET r == reqs[rid] IN
    (r.op = "execute" /\ WrongToken(r))
    => /\ r.resp = "invalid_token"
       /\ HasEvent(rid, "dangerous_command_rejected")
       /\ ~Spawned(rid)

\* C2 amended: for an entry that is dangerous and enabled, an execute request
\* with a non-empty token other than the phrase is answered "Invalid
\* confirmation token", logs dangerous_command_rejected and spawns nothing;
\* and no wrong token, empty or not, spawns a process for a dangerous entry.
C2_WrongTokenDangerous ==
  \A rid \in Rids :
    LET r == reqs[rid] IN
    (/\ r.op = "execute" /\ WrongToken(r)
     /\ IsSome(r.cfg) /\ Val(r.cfg).dangerous)
    => /\ ~Spawned(rid)
       /\ ~HasEvent(rid, "dangerous_command_confirmed")
       /\ (Val(r.cfg).enabled /\ Val(r.token) # "")
          => /\ r.resp = "invalid_token"
             /\ HasEvent(rid, "dangerous_command_rejected")

C2_Witness ==
  \E rid \in Rids :
    /\ reqs[rid].op = "execute" /\ reqs[rid].token = Some("wrong")
    /\ IsSome(reqs[rid].cfg) /\ Val(reqs[rid].cfg).dangerous
    /\ Val(reqs[rid].cfg).enabled
    /\ reqs[rid].resp = "invalid_token"

\* C3: a process is spawned only by an execute request that found the
\* Registry loadable and in it an entry of the requested name that is enabled
\* and either not dangerous or confirmed by the phrase; a disabled entry is
\* answered "is disabled" and an unknown name "Unknown command" whatever the
\* token, an unloadable Registry is answered with the error text, and none
\* of these spawns a process.
C3_ExecutionGuard ==
  [][/\ Len(procs') > Len(procs) => Arrives("execute")
     /\ Arrives("execute") =>
          LET r == Arrived
              es == Entries(Val(r.name))
          IN /\ r.resp # ""
             /\ procs' # procs =>
                  /\ LoadOk(regFile)
                  /\ \E e \in es :
                       e.enabled /\ (~e.dangerous \/ r.token = Some(Phrase))
                  /\ procs' = Append(procs, [req |-> Len(reqs'),
                                             line |-> FullCommand(Val(r.name), r.args),
                                             status |-> "running"])
             /\ (LoadOk(regFile) /\ \E e \in es : ~e.enabled) =>
                  r.resp = "command_disabled" /\ procs' = procs
             /\ (LoadOk(regFile) /\ es = {}) =>
                  r.resp = "unknown_command" /\ procs' = procs
             /\ ~LoadOk(regFile) => r.resp = "error" /\ procs' = procs
    ]_vars

C3_Witness ==
  \E rid \in Rids :
    /\ reqs[rid].op = "execute" /\ reqs[rid].token = Some(Phrase)
    /\ IsSome(reqs[rid].cfg) /\ ~Val(reqs[rid].cfg).enabled
    /\ reqs[rid].resp = "command_disabled"
    /\ ~Spawned(rid)

\* C4: every entry of the Registry file that is not dangerous has an empty
\* confirmationPrompt and empty consequences.
C4_NonDangerousCleared ==
  LoadOk(regFile) =>
    \A i \in 1..Len(regFile.cmds) :
      ~regFile.cmds[i].dangerous =>
        /\ regFile.cmds[i].confirmationPrompt = ""
        /\ regFile.cmds[i].consequences = ""

C4_Witness ==
  /\ LoadOk(regFile)
  /\ \E rid \in Rids :
       /\ reqs[rid].op = "manageCommand" /\ reqs[rid].action = "update"
       /\ reqs[rid].name = Some("format")
       /\ reqs[rid].fields.dangerous = Some(FALSE)
       /\ reqs[rid].fields.confirmationPrompt = Some("p")
       /\ reqs[rid].resp = "updated"
  /\ \E i \in 1..Len(regFile.cmds) :
       /\ regFile.cmds[i].name = "format"
       /\ ~regFile.cmds[i].dangerous
       /\ regFile.cmds[i].confirmationPrompt = ""

C6_OneEventPerOutcome ==
  [][(Arrives("execute") /\ LoadOk(regFile)) => Len(NewEvents) = 1]_vars

\* C6 amended: not_found, disabled, PendingConfirmation, invalid_token and the
\* confirmed Allowed each append exactly one event before the gate returns,
\* tagged command_not_found, command_disabled, dangerous_command_attempt,
\* dangerous_command_rejected and dangerous_command_confirmed; the Allowed of
\* a non-dangerous entry appends none before the process is spawned.
C6_GateEvents ==
  [][(Arrives("execute") /\ LoadOk(regFile)) =>
       LET r == Arrived
           es == Entries(Val(r.name))
           tagged(action) ==
             /\ Len(NewEvents) = 1
             /\ NewEvents[1].action = action
             /\ NewEvents[1].req = Len(reqs')
       IN /\ es = {} => tagged("command_not_found")
          /\ \A e \in es :
               /\ ~e.enabled => tagged("command_disabled")
               /\ (e.enabled /\ ~e.dangerous) => NewEvents = <<>> /\ procs' # procs
               /\ (e.enabled /\ e.dangerous /\ ~Truthy(r.token))
                    => tagged("dangerous_command_attempt")
               /\ (e.enabled /\ e.dangerous /\ Truthy(r.token)
                     /\ r.token # Some(Phrase))
                    => tagged("dangerous_command_rejected")
               /\ (e.enabled /\ e.dangerous /\ r.token = Some(Phrase))
                    => tagged("dangerous_command_confirmed") /\ procs' # procs
    ]_vars

C6_Witness ==
  /\ \E rid \in Rids :
       /\ reqs[rid].gate = "confirmed"
       /\ HasEvent(rid, "dangerous_command_confirmed")
  /\ \E rid \in Rids :
       /\ reqs[rid].gate = "allowed"
       /\ reqs[rid].resp = "awaiting"
       /\ \A k \in 1..Len(AllEvents) : AllEvents[k].req # rid

Completion == {"command_executed", "command_failed"}

\* The events that report the end of the process of request rid.
CompletionEvents(rid) ==
  SelectSeq(AllEvents, LAMBDA e : e.req = rid /\ e.action \in Completion)

\* C7: for every spawned process, no command_executed or command_failed is
\* logged for its request while it runs, and once it ended exactly one is:
\* command_executed if it succeeded, command_failed if it did not.
C7_OneCompletionEvent ==
  \A i \in 1..Len(procs) :
    LET rid == procs[i].req
        done == CompletionEvents(rid)
    IN /\ procs[i].status = "running" => done = <<>>
       /\ procs[i].status = "ok" =>
            /\ Len(done) = 1 /\ done[1].action = "command_executed"
            /\ reqs[rid].resp = "output"
       /\ procs[i].status = "failed" =>
            /\ Len(done) = 1 /\ done[1].action = "command_failed"
            /\ reqs[rid].resp = "error"

C7_Witness ==
  /\ LoadOk(regFile) /\ regFile.cmds = DefaultCommands
  /\ \E i \in 1..Len(procs) :
       /\ procs[i].line = <<"dir">> /\ procs[i].status = "ok"
       /\ Len(CompletionEvents(procs[i].req)) = 1
  /\ \E i \in 1..Len(procs) : procs[i].status = "failed"

\* C8: an execute request with the phrase for an entry that is dangerous and
\* enabled spawns the process with the line "name args"; its one
\* dangerous_command_confirmed event is in the log as soon as the process
\* exists and precedes its command_executed or command_failed event.
C8_ConfirmedThenCompleted ==
  \A rid \in Rids :
    LET r == reqs[rid] IN
    (/\ r.op = "execute" /\ r.token = Some(Phrase)
     /\ IsSome(r.cfg) /\ Val(r.cfg).dangerous /\ Val(r.cfg).enabled)
    => LET line == IF Truthy(r.args) THEN <<Val(r.name), Val(r.args)>>
                   ELSE <<Val(r.name)>>
           conf == {k \in 1..Len(AllEvents) :
                      /\ AllEvents[k].req = rid
                      /\ AllEvents[k].action = "dangerous_command_confirmed"}
       IN /\ \E i \in 1..Len(procs) : procs[i].req = rid /\ procs[i].line = line
          /\ Cardinality(conf) = 1
          /\ \A k \in conf : AllEvents[k].command = line
          /\ \A k \in conf, m \in 1..Len(AllEvents) :
               (AllEvents[m].req = rid /\ AllEvents[m].action \in Completion)
               => k < m

C8_Witness ==
  \E i, j, k \in 1..Len(AllEvents) :
    /\ i < j /\ j < k
    /\ AllEvents[i].action = "dangerous_command_confirmed"
    /\ AllEvents[i].command = <<"format", "C:">>
    /\ AllEvents[j].req # AllEvents[i].req /\ AllEvents[j].req # 0
    /\ AllEvents[k].req = AllEvents[i].req
    /\ AllEvents[k].action \in Completion

NameActions == {"add", "update", "remove", "enable", "disable"}

\* C9: a manageCommand request that adds a name the Registry has, or updates,
\* removes, enables or disables a name it has not, or gives no name to one
\* of these actions, is answered with its error message; the Registry file
\* is as before and no event is logged (no config_saved in particular).  With
\* no loadable Registry the answer is the load error, and no config_saved.
C9_RejectedLeavesRegistry ==
  [][(Arrives("manageCommand") /\ Arrived.action \in NameActions) =>
       LET r == Arrived
           has == IsSome(r.name) /\ Entries(Val(r.name)) # {}
           unchanged == regFile' = regFile /\ logs' = logs
       IN /\ (LoadOk(regFile) /\ ~IsSome(r.name)) =>
               r.resp = "name_required" /\ unchanged
          /\ (LoadOk(regFile) /\ r.action = "add" /\ has) =>
               r.resp = "already_exists" /\ unchanged
          /\ (LoadOk(regFile) /\ r.action # "add" /\ IsSome(r.name) /\ ~has) =>
               r.resp = "not_found" /\ unchanged
          /\ ~LoadOk(regFile) =>
               /\ r.resp = "management_failed"
               /\ regFile' = regFile
               /\ \A k \in 1..Len(NewEvents) : NewEvents[k].action # "config_saved"
    ]_vars

C9_Witness ==
  /\ \E rid \in Rids :
       /\ reqs[rid].op = "manageCommand" /\ reqs[rid].action = "add"
       /\ reqs[rid].name = Some("dir") /\ reqs[rid].resp = "already_exists"
  /\ \E rid \in Rids :
       /\ reqs[rid].op = "manageCommand" /\ reqs[rid].action = "remove"
       /\ reqs[rid].name = Some("x") /\ reqs[rid].resp = "not_found"
  /\ regFile = RegOk(DefaultCommands)

ListedNames(list) == {list[i].name : i \in 1..Len(list)}
NamesOf(cmds) == [i \in 1..Len(cmds) |-> cmds[i].name]

\* What the answers of two consecutive requests show: the name just added
\* is listed by queryCommands(all), the name just removed is not.
C10_Listing ==
  \A k \in 2..Len(reqs) :
    LET q == reqs[k]
        m == reqs[k - 1]
    IN (/\ q.op = "queryCommands" /\ q.filter = Some("all") /\ q.resp = "commands"
        /\ m.op = "manageCommand" /\ IsSome(m.name))
       => /\ m.resp = "added" => Val(m.name) \in ListedNames(q.list)
          /\ m.resp = "removed" => Val(m.name) \notin ListedNames(q.list)

\* What each step does: add appends the entry after the others, remove
\* takes the entry out and keeps the others in their order, queryCommands(all)
\* lists the names of the Registry file in its order.
C10_Steps ==
  /\ (Arrives("manageCommand") /\ Arrived.resp = "added") =>
       /\ LoadOk(regFile) /\ Entries(Val(Arrived.name)) = {}
       /\ LoadOk(regFile')
       /\ Len(regFile'.cmds) = Len(regFile.cmds) + 1
       /\ SubSeq(regFile'.cmds, 1, Len(regFile.cmds)) = regFile.cmds
       /\ regFile'.cmds[Len(regFile'.cmds)].name = Val(Arrived.name)
  /\ (Arrives("manageCommand") /\ Arrived.resp = "removed") =>
       /\ LoadOk(regFile')
       /\ Len(regFile'.cmds) = Len(regFile.cmds) - 1
       /\ regFile'.cmds =
            SelectSeq(regFile.cmds, LAMBDA c : c.name # Val(Arrived.name))
  /\ (Arrives("queryCommands") /\ Arrived.filter = Some("all") /\ LoadOk(regFile)) =>
       /\ Arrived.resp = "commands"
       /\ NamesOf(Arrived.list) = NamesOf(regFile.cmds)

C11_ReadersKeepRegistry ==
  [][(\/ Arrives("queryCommands")
      \/ Arrives("queryLogs")
      \/ Arrives("resource")
      \/ (Arrives("manageCommand") /\ Arrived.action = "list"))
     => regFile' = regFile]_vars

C11_Witness ==
  /\ Len(reqs) = 2
  /\ reqs[1].op = "queryLogs"
  /\ reqs[2].op = "queryCommands" /\ reqs[2].resp = "query_failed"
  /\ regFile = RegAbsent

QueryEvents(r, rid, loaded) ==
  IF r.op = "queryLogs" THEN <<Event("logs_queried", rid, NoCommand, "")>>
  ELSE IF loaded THEN <<Event("commands_queried", rid, NoCommand, "")>>
  ELSE <<LoadFailedEvent, Event("query_failed", rid, NoCommand, "")>>

ManageSuccess == {"added", "updated", "removed", "enabled", "disabled"}

\* A manageCommand step on another name than that of request 1, after which
\* the Registry file has no entry of the name request 1 added.
LostUpdateStep ==
  /\ \E in \in ManageInputs : ManageCommand(in[1], in[2], in[3])
  /\ Arrived.resp \in ManageSuccess
  /\ Arrived.name # reqs[1].name
  /\ LoadOk(regFile')
  /\ \A j \in 1..Len(regFile'.cmds) : regFile'.cmds[j].name # Val(reqs[1].name)

\* C13 as stated, for a request that added a name and a second manageCommand
\* request that arrived with it: the second can save a Registry computed
\* from the one before the add, so that the added entry is lost.
C13_LostUpdatePossible ==
  (/\ Len(reqs) = 1 /\ reqs[1].op = "manageCommand" /\ reqs[1].resp = "added"
   /\ LoadOk(regFile))
  => ENABLED LostUpdateStep

\* What the last two requests, both manageCommand and both answered with
\* success on different names, leave in the Registry file: both changes.
BothApplied ==
  \A k \in {Len(reqs)} \ {0, 1} :
    LET m1 == reqs[k - 1]
        m2 == reqs[k]
        e1 == Entries(Val(m1.name))
    IN (/\ m1.op = "manageCommand" /\ m1.resp \in ManageSuccess
        /\ m2.op = "manageCommand" /\ m2.resp \in ManageSuccess
        /\ m1.name # m2.name /\ LoadOk(regFile))
       => /\ m1.resp = "removed" => e1 = {}
          /\ m1.resp # "removed" => Cardinality(e1) = 1
          /\ m1.resp = "enabled" => \A e \in e1 : e.enabled
          /\ m1.resp = "disabled" => \A e \in e1 : ~e.enabled
          /\ (m1.resp = "updated" /\ IsSome(m1.fields.description)) =>
               \A e \in e1 : e.description = Val(m1.fields.description)

\* A manageCommand step keeps every entry of another name that the Registry
\* file held when the request arrived.
KeepsOthers ==
  (Arrives("manageCommand") /\ LoadOk(regFile) /\ LoadOk(regFile')) =>
    \A i \in 1..Len(regFile.cmds) :
      Some(regFile.cmds[i].name) # Arrived.name =>
        \E j \in 1..Len(regFile'.cmds) : regFile'.cmds[j] = regFile.cmds[i]

\* C13 amended: manageCommand loads, changes and saves the Registry without
\* a suspension point, so the requests of one service never interleave: each
\* loads the file the one before it saved, keeps the entries of the other
\* names, and after two successful requests on different names the file
\* holds both changes; no update is lost.
C13_NoLostUpdate == [][KeepsOthers]_vars /\ []BothApplied

C13_Witness ==
  /\ Len(reqs) = 2
  /\ reqs[1].action = "add" /\ reqs[1].name = Some("x") /\ reqs[1].resp = "added"
  /\ reqs[2].action = "disable" /\ reqs[2].name = Some("dir")
  /\ reqs[2].resp = "disabled"
  /\ LoadOk(regFile) /\ Len(regFile.cmds) = 4
  /\ regFile.cmds[4].name = "x" /\ ~regFile.cmds[1].enabled

\* The request asks for a change the Registry file admits: an add of a name
\* it has not, or an update, remove, enable or disable of a name it has.
Mutating(r) ==
  /\ r.action \in NameActions /\ IsSome(r.name)
  /\ (r.action = "add") = (Entries(Val(r.name)) = {})

\* C14: when writing or renaming the temporary file fails, saveCommands
\* returns false and nothing is thrown: the manageCommand request is
\* answered "Operation succeeded but failed to save config", the Registry
\* file holds exactly what it held before the request, and config_save_failed
\* is appended after the event of the action, config_saved is not.  The file
\* is never left partial: after any manageCommand request it is the file of
\* before, or a whole new array whose save logged config_saved.
C14_SaveFailureIsValue ==
  [][(Arrives("manageCommand") /\ LoadOk(regFile)) =>
       LET r == Arrived
           n == Len(NewEvents)
       IN /\ (saveBroken /\ Mutating(r)) =>
               /\ r.resp = "save_failed"
               /\ regFile' = regFile
               /\ n = 2
               /\ NewEvents[1].req = Len(reqs') /\ NewEvents[1].name = Val(r.name)
               /\ NewEvents[2].action = "config_save_failed"
          /\ r.resp = "save_failed" => (saveBroken /\ Mutating(r))
          /\ regFile' # regFile =>
               /\ LoadOk(regFile') /\ ~saveBroken /\ r.resp \in ManageSuccess
               /\ n = 2 /\ NewEvents[2].action = "config_saved"
    ]_vars

C14_Witness ==
  /\ Len(reqs) = 2
  /\ reqs[1].op = "manageCommand" /\ reqs[1].action = "remove"
  /\ reqs[1].name = Some("dir") /\ reqs[1].resp = "save_failed"
  /\ reqs[2].op = "queryCommands" /\ reqs[2].resp = "commands"
  /\ "dir" \in ListedNames(reqs[2].list)
  /\ regFile = RegOk(DefaultCommands)
  /\ \E k \in 1..Len(AllEvents) : AllEvents[k].action = "config_save_failed"

\* The answer and the spawn of an execute request as the Registry entry and
\* the token decide them.
ExecuteOutcome ==
  (Arrives("execute") /\ LoadOk(regFile)) =>
    LET r == Arrived
        es == Entries(Val(r.name))
        spawned == procs' = Append(procs, [req |-> Len(reqs'),
                                           line |-> FullCommand(Val(r.name), r.args),
                                           status |-> "running"])
    IN /\ es = {} => (r.resp = "unknown_command" /\ procs' = procs)
       /\ \A e \in es :
            /\ ~e.enabled => (r.resp = "command_disabled" /\ procs' = procs)
            /\ (e.enabled /\ ~e.dangerous) => (r.resp = "awaiting" /\ spawned)
            /\ (e.enabled /\ e.dangerous /\ ~Truthy(r.token)) =>
                 (r.resp = "warning" /\ r.requiresConfirmation /\ procs' = procs)
            /\ (e.enabled /\ e.dangerous /\ Truthy(r.token) /\ r.token # Some(Phrase)) =>
                 (r.resp = "invalid_token" /\ procs' = procs)
            /\ (e.enabled /\ e.dangerous /\ r.token = Some(Phrase)) =>
                 (r.resp = "awaiting" /\ spawned)

\* The end of a process answers its request with the output or the error.
ExitOutcome ==
  \A i \in 1..Len(procs) :
    (procs[i].status = "running" /\ procs'[i].status # "running") =>
      reqs'[procs[i].req].resp = IF procs'[i].status = "ok" THEN "output" ELSE "error"

\* A manageCommand request for a change the Registry admits is applied.
ManageOutcome ==
  (Arrives("manageCommand") /\ LoadOk(regFile) /\ Mutating(Arrived)) =>
    /\ Arrived.resp \in ManageSuccess
    /\ LoadOk(regFile')
    /\ Arrived.action = "add" => Entries(Val(Arrived.name)) = {} /\ regFile' # regFile

\* C15: a failing read or rewrite of the log partition changes nothing but
\* the log: the step appends nothing, and the request is answered as the
\* Registry entry and the token decide, whether the partition works or not.
\* An allowed or confirmed command is spawned and its process answered, a
\* blocked one gets its own answer, a manageCommand change is applied.
C15_LogFailureDoesNotBlock ==
  [][/\ today \in badParts => logs' = logs
     /\ ExecuteOutcome
     /\ ExitOutcome
     /\ ManageOutcome]_vars

C15_Witness ==
  /\ today \in badParts
  /\ Len(reqs) = 2
  /\ reqs[1].op = "execute" /\ reqs[1].name = Some("dir") /\ reqs[1].resp = "output"
  /\ reqs[2].op = "execute" /\ reqs[2].gate = "confirmed" /\ Spawned(2)
  /\ \A k \in 1..Len(AllEvents) : AllEvents[k].req = 0

\* C16: when the service starts and finds no Registry file, the startup
\* creates it with exactly the default set in order (dir and ping not
\* dangerous and enabled, format dangerous and disabled), does not abort, and
\* appends service_initialized.
C16_FirstRunBootstrap ==
  [][(phase = "init" /\ phase' # "init" /\ regFile.st = "absent") =>
       /\ phase' = "running"
       /\ LoadOk(regFile')
       /\ NamesOf(regFile'.cmds) = <<"dir", "ping", "format">>
       /\ [i \in 1..3 |-> regFile'.cmds[i].dangerous] = <<FALSE, FALSE, TRUE>>
       /\ [i \in 1..3 |-> regFile'.cmds[i].enabled] = <<TRUE, TRUE, FALSE>>
       /\ \E k \in 1..Len(logs'[today]) :
            logs'[today][k].action = "service_initialized"
    ]_vars

RECURSIVE NewestFirst(_, _)
\* The events of the readable partitions of days d down to 1 that pass the
\* filter: a newer partition before an older one, each in its own order.
NewestFirst(d, filter) ==
  IF d = 0 THEN <<>>
  ELSE (IF d \in badParts THEN <<>>
        ELSE SelectSeq(logs[d], LAMBDA e : Truthy(filter) => EntryMatches(e, Val(filter))))
       \o NewestFirst(d - 1, filter)

\* C17: queryLogs(limit, filter) returns at most limit events: the first
\* limit (or all, if fewer) of the events that pass the filter, the newer
\* partition before the older and each partition in its order; with a filter
\* every returned event contains it in its action, command or name; an
\* unreadable partition is skipped and the others are still returned.
C17_QueryLogsResult ==
  [][Arrives("queryLogs") =>
       LET r == Arrived
           all == NewestFirst(MaxDay, r.filter)
       IN /\ Len(r.list) <= r.limit
          /\ Len(r.list) = IF Len(all) < r.limit THEN Len(all) ELSE r.limit
          /\ r.list = SubSeq(all, 1, Len(r.list))
          /\ Truthy(r.filter) =>
               \A k \in 1..Len(r.list) : EntryMatches(r.list[k], Val(r.filter))
          /\ \A k \in 1..Len(r.list) :
               \E d \in Days \ badParts :
                 \E j \in 1..Len(logs[d]) : logs[d][j] = r.list[k]
    ]_vars

C17_Witness ==
  /\ Len(reqs) = 2 /\ today = 2
  /\ 1 \in badParts /\ Len(logs[1]) >= 3
  /\ reqs[2].op = "queryLogs" /\ reqs[2].filter = Some("failed")
  /\ Len(reqs[2].list) = 1 /\ reqs[2].list[1].action = "command_failed"

\* The execute requests that found a loadable Registry.
Gated == {rid \in Rids : reqs[rid].op = "execute" /\ reqs[rid].gate # "load_failed"}

\* C18: the outcome of the gate depends only on the entry the request found
\* and on the token it carries: two requests with the same entry (or both
\* with none) and the same token took the same branch, were both spawned or
\* both not, whatever requests came before them; and a process for a
\* dangerous entry was spawned only for a request that itself carries the
\* phrase, also after another request was confirmed.
C18_GateStateless ==
  /\ \A i, j \in Gated :
       (reqs[i].cfg = reqs[j].cfg /\ reqs[i].token = reqs[j].token) =>
         /\ reqs[i].gate = reqs[j].gate
         /\ reqs[i].requiresConfirmation = reqs[j].requiresConfirmation
         /\ Spawned(i) = Spawned(j)
  /\ \A i \in Gated :
       (Spawned(i) /\ IsSome(reqs[i].cfg) /\ Val(reqs[i].cfg).dangerous) =>
         reqs[i].token = Some(Phrase)

C18_Witness ==
  /\ Len(reqs) = 2
  /\ reqs[1].op = "execute" /\ reqs[1].gate = "confirmed" /\ Spawned(1)
  /\ reqs[2].op = "execute" /\ reqs[2].cfg = reqs[1].cfg
  /\ reqs[2].token = None /\ reqs[2].gate = "pending" /\ ~Spawned(2)

\* A manageCommand request leaves the spawned processes as they are.
ManageKeepsProcs == Arrives("manageCommand") => procs' = procs

\* A process, once spawned, stays with its request and line, and its end
\* appends the completion event of its request, whatever the Registry file
\* holds by then.
ExitLogsCompletion ==
  /\ Len(procs') >= Len(procs)
  /\ \A i \in 1..Len(procs) :
       /\ procs'[i].req = procs[i].req /\ procs'[i].line = procs[i].line
       /\ procs[i].status # "running" => procs'[i] = procs[i]
       /\ (procs[i].status = "running" /\ procs'[i].status # "running") =>
            NewEvents = <<Event(IF procs'[i].status = "ok" THEN "command_executed"
                                ELSE "command_failed",
                                procs[i].req, procs[i].line, "")>>

\* A process is spawned in the step in which its request loaded the
\* Registry: the entry the gate evaluated is the entry of the file at the
\* spawn.
SpawnAtEvaluation ==
  Len(procs') > Len(procs) =>
    /\ Arrives("execute")
    /\ regFile' = regFile /\ LoadOk(regFile)
    /\ IsSome(Arrived.cfg) /\ Val(Arrived.cfg) \in Entries(Val(Arrived.name))
    /\ Val(Arrived.cfg).enabled
    /\ procs'[Len(procs')].req = Len(reqs')

\* C19: a manageCommand request is handled while a process is in flight and
\* does not touch it: the process stays, and its end appends command_executed
\* or command_failed for its request also when the Registry file by then
\* holds the command disabled, changed or not at all.  No request is handled
\* between the gate's evaluation of the loaded entry and the spawn.
C19_DispatchNotRevocable ==
  [][ManageKeepsProcs /\ ExitLogsCompletion /\ SpawnAtEvaluation]_vars

C19_Witness ==
  /\ Len(reqs) = 2 /\ Len(procs) = 1
  /\ reqs[1].op = "execute" /\ reqs[1].name = Some("dir") /\ reqs[1].resp = "output"
  /\ reqs[2].op = "manageCommand" /\ reqs[2].action = "remove"
  /\ reqs[2].name = Some("dir") /\ reqs[2].resp = "removed"
  /\ LoadOk(regFile) /\ Entries("dir") = {}
  /\ \E j, k \in 1..Len(AllEvents) :
       /\ j < k
       /\ AllEvents[j].action = "command_removed" /\ AllEvents[j].req = 2
       /\ AllEvents[k].action = "command_executed" /\ AllEvents[k].req = 1

\* The value a patched field has: the supplied one, else the old one.
Patched(supplied, old) == IF IsSome(supplied) THEN Val(supplied) ELSE old

\* C20: a manageCommand update answered "Updated command" saves the entry
\* with every supplied field at its supplied value, except that
\* confirmationPrompt and consequences are empty when the entry is then not
\* dangerous; the fields not supplied, the name, the other entries and the
\* order are unchanged.  This holds also when only confirmationPrompt or
\* consequences is supplied for an entry that is dangerous already.
C20_UpdateIsPatch ==
  [][(Arrives("manageCommand") /\ Arrived.action = "update"
        /\ Arrived.resp = "updated") =>
       LET f == Arrived.fields
           i == CHOOSE k \in 1..Len(regFile.cmds) :
                  regFile.cmds[k].name = Val(Arrived.name)
           old == regFile.cmds[i]
           new == regFile'.cmds[i]
       IN /\ LoadOk(regFile') /\ Len(regFile'.cmds) = Len(regFile.cmds)
          /\ \A k \in 1..Len(regFile.cmds) : k # i => regFile'.cmds[k] = regFile.cmds[k]
          /\ new.name = old.name
          /\ new.description = Patched(f.description, old.description)
          /\ new.example = Patched(f.example, old.example)
          /\ new.enabled = Patched(f.enabled, old.enabled)
          /\ new.dangerous = Patched(f.dangerous, old.dangerous)
          /\ new.confirmationPrompt =
               IF new.dangerous
               THEN Patched(f.confirmationPrompt, old.confirmationPrompt) ELSE ""
          /\ new.consequences =
               IF new.dangerous
               THEN Patched(f.consequences, old.consequences) ELSE ""
    ]_vars

\* The entry of the given name in a list of commands with distinct names.
EntryOf(cmds, name) ==
  cmds[CHOOSE k \in 1..Len(cmds) : cmds[k].name = name]

\* A request that repeats the one before it: same action, same name, both
\* answered with the success message.
Repeats(r) ==
  /\ Len(reqs) >= 1
  /\ reqs[Len(reqs)].op = "manageCommand"
  /\ reqs[Len(reqs)].action = r.action
  /\ reqs[Len(reqs)].name = r.name
  /\ reqs[Len(reqs)].resp = r.resp

\* C21: enable (disable) of a name the Registry has saves the Registry with
\* that entry's enabled true (false) and nothing else changed: the entry's
\* name, description, example, dangerous, confirmationPrompt and
\* consequences, every other entry, the number and the order of the entries
\* are as before.  The same request once more leaves the Registry as the
\* first one left it, and so does one on an entry whose flag is already set.
C21_ToggleOnlyEnabled ==
  [][(Arrives("manageCommand") /\ Arrived.action \in {"enable", "disable"}
        /\ LoadOk(regFile) /\ IsSome(Arrived.name)
        /\ Entries(Val(Arrived.name)) # {}) =>
       LET r == Arrived
           b == (r.action = "enable")
           i == CHOOSE k \in 1..Len(regFile.cmds) :
                  regFile.cmds[k].name = Val(r.name)
           old == regFile.cmds[i]
           new == regFile'.cmds[i]
       IN /\ r.resp = (IF b THEN "enabled" ELSE "disabled")
          /\ LoadOk(regFile') /\ Len(regFile'.cmds) = Len(regFile.cmds)
          /\ \A k \in 1..Len(regFile.cmds) : k # i => regFile'.cmds[k] = regFile.cmds[k]
          /\ new.enabled = b
          /\ new.name = old.name
          /\ new.description = old.description
          /\ new.example = old.example
          /\ new.dangerous = old.dangerous
          /\ new.confirmationPrompt = old.confirmationPrompt
          /\ new.consequences = old.consequences
          /\ DOMAIN new = DOMAIN old
          /\ (old.enabled = b => regFile' = regFile)
          /\ (Repeats(r) => regFile' = regFile)
    ]_vars

\* format, disabled in the bootstrap Registry, was enabled twice: the
\* Registry is the bootstrap one with that flag set and its prompt kept.
C21_Witness ==
  /\ Len(reqs) = 2
  /\ reqs[1].action = "enable" /\ reqs[1].resp = "enabled"
  /\ reqs[2].action = "enable" /\ reqs[2].resp = "enabled"
  /\ reqs[1].name = Some("format") /\ reqs[2].name = Some("format")
  /\ production
  /\ regFile = RegOk(FormatEnabled)
  /\ EntryOf(regFile.cmds, "format").confirmationPrompt
       = "This will PERMANENTLY erase all data. Confirm?"

\* The names of a list of commands are pairwise distinct.
DistinctNames(cmds) ==
  \A j, k \in 1..Len(cmds) : cmds[j].name = cmds[k].name => j = k

\* What a step does to the names in the Registry file, in order: nothing;
\* an accepted add puts one name that was not there at the end; an accepted
\* remove takes one out; the start writes the bootstrap Registry where
\* there was no file.
NamesStep ==
  LET old == NamesOf(regFile.cmds)
      new == NamesOf(regFile'.cmds)
  IN \/ new = old
     \/ /\ Arrives("manageCommand") /\ Arrived.action = "add"
        /\ Arrived.resp = "added"
        /\ \A k \in 1..Len(old) : old[k] # Val(Arrived.name)
        /\ new = Append(old, Val(Arrived.name))
     \/ /\ Arrives("manageCommand") /\ Arrived.action = "remove"
        /\ Arrived.resp = "removed"
        /\ \E i \in 1..Len(old) :
             /\ old[i] = Val(Arrived.name)
             /\ new = SubSeq(old, 1, i - 1) \o SubSeq(old, i + 1, Len(old))
     \/ /\ phase = "init" /\ regFile.st = "absent"
        /\ new = NamesOf(DefaultCommands)

\* C22: the Registry file never holds two entries of one name, whatever
\* manageCommand requests arrive, one after another or while the processes
\* of execute requests run; and no step changes the name of an entry: the
\* names stay as they are, in order, but for the one an add appends or a
\* remove takes out.
C22_NamesUnique == [][NamesStep]_vars /\ [](DistinctNames(regFile.cmds))

\* "x" was added and a second add of "x" was rejected: the Registry holds
\* the three bootstrap names and "x" once.
C22_Witness ==
  /\ Len(reqs) = 2
  /\ reqs[1].action = "add" /\ reqs[1].name = Some("x") /\ reqs[1].resp = "added"
  /\ reqs[2].action = "add" /\ reqs[2].name = Some("x")
  /\ reqs[2].resp = "already_exists"
  /\ NamesOf(regFile.cmds) = <<"dir", "ping", "format", "x">>

\* Request k added the name as a dangerous command, with no enabled value.
AddedDangerous(k, name) ==
  /\ reqs[k].op = "manageCommand" /\ reqs[k].action = "add"
  /\ reqs[k].name = Some(name) /\ reqs[k].resp = "added"
  /\ reqs[k].fields.dangerous = Some(TRUE)
  /\ reqs[k].fields.enabled = None

\* Request k enabled the entry of the name, or removed it.
Released(k, name) ==
  /\ reqs[k].op = "manageCommand" /\ reqs[k].name = Some(name)
  /\ \/ reqs[k].action = "enable" /\ reqs[k].resp = "enabled"
     \/ /\ reqs[k].action = "update" /\ reqs[k].resp = "updated"
        /\ reqs[k].fields.enabled = Some(TRUE)
     \/ reqs[k].action = "remove" /\ reqs[k].resp = "removed"

\* The name was added as a dangerous command with no enabled value, and no
\* request since has enabled or removed its entry.
StillDefault(name) ==
  \E k \in Rids :
    /\ AddedDangerous(k, name)
    /\ \A j \in Rids : j > k => ~Released(j, name)

\* An add without an enabled value stores the safe default.
AddStoresDefault ==
  (Arrives("manageCommand") /\ Arrived.action = "add" /\ Arrived.resp = "added"
     /\ Arrived.fields.enabled = None) =>
    LET new == regFile'.cmds[Len(regFile'.cmds)] IN
    /\ Len(regFile'.cmds) = Len(regFile.cmds) + 1
    /\ new.name = Val(Arrived.name)
    /\ IF Arrived.fields.dangerous = Some(TRUE)
       THEN new.dangerous /\ ~new.enabled
       ELSE ~new.dangerous /\ new.enabled

\* An execute of a command still at the safe default is blocked.
DefaultBlocks ==
  (Arrives("execute") /\ StillDefault(Val(Arrived.name))) =>
    /\ Arrived.gate = "disabled"
    /\ Arrived.resp = "command_disabled"
    /\ procs' = procs

\* C23: an add with dangerous true and no enabled value stores the entry
\* dangerous and not enabled; until an enable or an update with enabled
\* true (or a remove) of that name is accepted, every execute of it, with
\* whatever token, the right one included, is answered as disabled and
\* spawns no process.  An add with dangerous false or without dangerous,
\* and no enabled value, stores the entry enabled and not dangerous.
C23_SafeDefaultOnAdd == [][AddStoresDefault /\ DefaultBlocks]_vars

\* "x" was added as dangerous with no enabled value and then executed with
\* the confirmation phrase: blocked as disabled, no process spawned.
C23_Witness ==
  /\ Len(reqs) = 2
  /\ AddedDangerous(1, "x")
  /\ reqs[2].op = "execute" /\ reqs[2].name = Some("x")
  /\ reqs[2].token = Some(Phrase)
  /\ reqs[2].gate = "disabled"
  /\ procs = <<>>
  /\ ~EntryOf(regFile.cmds, "x").enabled
  /\ EntryOf(regFile.cmds, "x").dangerous

====
